---- MODULE Spec2Model ----
(***************************************************************************)
(* Gym Habit: the in-memory gym store (GymDatabase) with its CSV backing   *)
(* file, and the subscription request log (SubscriptionManager) with its   *)
(* JSON backing file, modelled from src/database.py and src/main.py.       *)
(*                                                                         *)
(* Text is a sequence of one-character strings, so that str.strip(),       *)
(* str.lower(), str.startswith(), int(), float() and the number formatting *)
(* of the writers are computed and not assumed.  Coordinates are whole     *)
(* degrees (floats with a zero fraction); distances are hundredths of a    *)
(* kilometre (the source rounds to 2 decimals).                            *)
(***************************************************************************)
EXTENDS Integers, Sequences, FiniteSets, TLC

VARIABLES
    gyms,        \* GymDatabase.gyms: the in-memory list of gym dicts
    csvFile,     \* the file at GymDatabase.csv_path
    backupFile,  \* the file at csv_path + ".backup"
    lastOp,      \* the last call made on the store or the log, and its result
    deleted,     \* ids removed by delete_gym since the last (re)load
    handle,      \* what the caller of the last read holds (aliases or copies)
    reqFile,     \* the file at SubscriptionManager.json_path
    today,       \* the day datetime.now() falls on
    issued,      \* the requests save_request has returned an id for, in order
    calls,       \* per caller of save_request: where it is, and its local list
    nOps         \* the number of calls made so far

vars == <<gyms, csvFile, backupFile, lastOp, deleted, handle, reqFile, today, issued, calls,
          nOps>>

storeVars == <<gyms, csvFile, backupFile, deleted>>
logVars == <<reqFile, today, issued, calls>>

-----------------------------------------------------------------------------
(* Bounds of the model.                                                    *)

\* The number of calls a run makes on the store or on the log.
MaxOps == 4
\* The last day a run reaches, counted from day 0.
MaxDay == 1
\* The largest limit a nearest query is made with.
MaxLimit == 2
\* The number of save_request calls made by callers running at once.
MaxRaceCalls == 3

-----------------------------------------------------------------------------
(* Text.                                                                   *)

RECURSIVE LStrip(_)
LStrip(s) == IF s # <<>> /\ Head(s) = " " THEN LStrip(Tail(s)) ELSE s

RECURSIVE RStrip(_)
RStrip(s) ==
    IF s # <<>> /\ s[Len(s)] = " " THEN RStrip(SubSeq(s, 1, Len(s) - 1)) ELSE s

\* str.strip()
Strip(s) == RStrip(LStrip(s))

LowerChar(c) ==
    CASE c = "B" -> "b"
      [] c = "C" -> "c"
      [] OTHER -> c

\* str.lower()
Lower(s) == [i \in 1..Len(s) |-> LowerChar(s[i])]

\* str.startswith(prefix)
StartsWith(s, prefix) ==
    /\ Len(prefix) <= Len(s)
    /\ SubSeq(s, 1, Len(prefix)) = prefix

Digits == <<"0", "1", "2", "3", "4", "5", "6", "7", "8", "9">>

IsDigit(c) == \E i \in 1..10 : Digits[i] = c

DigitVal(c) == (CHOOSE i \in 1..10 : Digits[i] = c) - 1

RECURSIVE NatOf(_)
NatOf(s) == IF s = <<>> THEN 0 ELSE 10 * NatOf(SubSeq(s, 1, Len(s) - 1)) + DigitVal(s[Len(s)])

IsNatText(s) == s # <<>> /\ \A i \in 1..Len(s) : IsDigit(s[i])

RECURSIVE FormatNat(_)
FormatNat(n) ==
    IF n < 10 THEN <<Digits[n + 1]>> ELSE FormatNat(n \div 10) \o <<Digits[(n % 10) + 1]>>

\* str(int)
FormatInt(n) == IF n < 0 THEN <<"-">> \o FormatNat(0 - n) ELSE FormatNat(n)

\* str(float) of a float with a zero fraction: "1.0", "-1.0"
FormatFloat(x) == FormatInt(x) \o <<".", "0">>

\* A parse result: ok is FALSE where Python raises ValueError.
Parsed(v) == [ok |-> TRUE, val |-> v]
ParseError == [ok |-> FALSE, val |-> 0]

Unsigned(s) == IF s # <<>> /\ Head(s) \in {"-", "+"} THEN Tail(s) ELSE s
Sign(s) == IF s # <<>> /\ Head(s) = "-" THEN -1 ELSE 1

\* int(str): surrounding blanks and a sign are accepted, a fraction is not
ParseInt(s) ==
    LET t == Strip(s) IN
    IF IsNatText(Unsigned(t)) THEN Parsed(Sign(t) * NatOf(Unsigned(t))) ELSE ParseError

DotAt(s) == IF \E i \in 1..Len(s) : s[i] = "." THEN CHOOSE i \in 1..Len(s) : s[i] = "." ELSE 0

\* float(str), for texts whose fraction (if any) is zeros
ParseFloat(s) ==
    LET t == Strip(s)
        u == Unsigned(t)
        d == DotAt(u)
        whole == IF d = 0 THEN u ELSE SubSeq(u, 1, d - 1)
        frac == IF d = 0 THEN <<>> ELSE SubSeq(u, d + 1, Len(u))
    IN  IF /\ IsNatText(whole)
           /\ \A i \in 1..Len(frac) : frac[i] = "0"
        THEN Parsed(Sign(t) * NatOf(whole))
        ELSE ParseError

\* A value handed to add_gym for a numeric field: a number or a text.
Number(n) == [isText |-> FALSE, num |-> n, text |-> <<>>]
Text(s) == [isText |-> TRUE, num |-> 0, text |-> s]

\* float(value) and int(value) as add_gym applies them
CoerceFloat(v) == IF v.isText THEN ParseFloat(v.text) ELSE Parsed(v.num)
CoerceInt(v) == IF v.isText THEN ParseInt(v.text) ELSE Parsed(v.num)

-----------------------------------------------------------------------------
(* Files.                                                                  *)

NoFile == [exists |-> FALSE, rows |-> <<>>]
FileOf(rows) == [exists |-> TRUE, rows |-> rows]

Row(partner, name, lat, lon, amount) ==
    [PartnerName |-> partner, GymName |-> name, Address |-> <<"a">>,
     Pincode |-> <<"4", "0", "0", "0", "0", "1">>, Latitude |-> lat, Longitude |-> lon,
     SubscriptionAmount |-> amount, Amenities |-> <<"w", ",", "p">>]

RowCult == Row(<<"c">>, <<"g", "1">>, <<"0", ".", "0">>, <<"1", ".", "0">>, <<"5">>)
RowCULT == Row(<<"C">>, <<"g", "2">>, <<"0">>, <<"-", "1">>, <<"7">>)
RowPadded == Row(<<" ", "b">>, <<"g", "3", " ">>, <<"1", ".", "0">>, <<"0", ".", "0">>, <<" ", "1", "2">>)
RowBad == Row(<<"b">>, <<"g", "4">>, <<"x">>, <<"0", ".", "0">>, <<"5">>)

\* The CSV files the store is constructed over or handed by replace_all_gyms.
Sources ==
    { NoFile,
      FileOf(<<>>),
      FileOf(<<RowCult, RowCULT>>),
      FileOf(<<RowPadded, RowCult>>),
      FileOf(<<RowCult, RowBad>>) }

GymData(partner, name, lat, lon, amount) ==
    [partner_name |-> partner, gym_name |-> name, address |-> <<"a">>,
     pincode |-> <<"4", "0", "0", "0", "0", "1">>, latitude |-> lat, longitude |-> lon,
     subscription_amount |-> amount, amenities |-> <<"w", ",", "p">>]

\* The gym_data dictionaries add_gym is called with.
AddInputs ==
    { GymData(<<"c">>, <<"n", "1">>, Number(0), Number(1), Number(5)),
      GymData(<<"C", " ">>, <<"n", "2">>, Number(0), Number(-1), Text(<<"7">>)),
      GymData(<<"b">>, <<"n", "3">>, Text(<<"x">>), Number(0), Number(9)) }

-----------------------------------------------------------------------------
(* GymDatabase.                                                            *)

RowParses(row) ==
    /\ ParseFloat(row.Latitude).ok
    /\ ParseFloat(row.Longitude).ok
    /\ ParseInt(row.SubscriptionAmount).ok

GymOfRow(idx, row) ==
    [id |-> idx,
     partner_name |-> Strip(row.PartnerName),
     gym_name |-> Strip(row.GymName),
     address |-> Strip(row.Address),
     pincode |-> Strip(row.Pincode),
     latitude |-> ParseFloat(row.Latitude).val,
     longitude |-> ParseFloat(row.Longitude).val,
     subscription_amount |-> ParseInt(row.SubscriptionAmount).val,
     amenities |-> Strip(row.Amenities)]

\* A slip: a malformed row is skipped, the rows after it are still loaded.
load_gyms_skipping(file) ==
    IF ~file.exists THEN <<>>
    ELSE LET good == SelectSeq(file.rows, RowParses)
         IN  [i \in 1..Len(good) |-> GymOfRow(i, good[i])]

\* load_gyms: the list self.gyms is left with
load_gyms(file) ==
    IF ~file.exists THEN <<>>
    ELSE IF \E i \in 1..Len(file.rows) : ~RowParses(file.rows[i]) THEN <<>>
    ELSE [i \in 1..Len(file.rows) |-> GymOfRow(i, file.rows[i])]

\* A slip: the two coordinate columns written in each other's place.
RowOfGymSwapped(gym) ==
    [PartnerName |-> gym.partner_name,
     GymName |-> gym.gym_name,
     Address |-> gym.address,
     Pincode |-> gym.pincode,
     Latitude |-> FormatFloat(gym.longitude),
     Longitude |-> FormatFloat(gym.latitude),
     SubscriptionAmount |-> FormatInt(gym.subscription_amount),
     Amenities |-> gym.amenities]

\* _save_to_csv: the row written for one gym
RowOfGym(gym) ==
    [PartnerName |-> gym.partner_name,
     GymName |-> gym.gym_name,
     Address |-> gym.address,
     Pincode |-> gym.pincode,
     Latitude |-> FormatFloat(gym.latitude),
     Longitude |-> FormatFloat(gym.longitude),
     SubscriptionAmount |-> FormatInt(gym.subscription_amount),
     Amenities |-> gym.amenities]

\* A slip: the file is written from the list less its last element.
save_to_csv_short(list, file, writeOK) ==
    IF writeOK
    THEN FileOf([i \in 1..(Len(list) - 1) |-> RowOfGym(list[i])])
    ELSE file

\* _save_to_csv: the file it leaves; an error opening the file is swallowed
save_to_csv(list, file, writeOK) ==
    IF writeOK THEN FileOf([i \in 1..Len(list) |-> RowOfGym(list[i])]) ELSE file

Ids(list) == {list[i].id : i \in 1..Len(list)}

MaxOf(S) == IF S = {} THEN 0 ELSE CHOOSE m \in S : \A x \in S : x <= m

\* A slip: the id taken from the length of the list.
NextIdByCount(list) == Len(list) + 1

\* add_gym: new_id
NextId(list) == MaxOf(Ids(list)) + 1

DataCoerces(gym_data) ==
    /\ CoerceFloat(gym_data.latitude).ok
    /\ CoerceFloat(gym_data.longitude).ok
    /\ CoerceInt(gym_data.subscription_amount).ok

NewGym(new_id, gym_data) ==
    [id |-> new_id,
     partner_name |-> gym_data.partner_name,
     gym_name |-> gym_data.gym_name,
     address |-> gym_data.address,
     pincode |-> gym_data.pincode,
     latitude |-> CoerceFloat(gym_data.latitude).val,
     longitude |-> CoerceFloat(gym_data.longitude).val,
     subscription_amount |-> CoerceInt(gym_data.subscription_amount).val,
     amenities |-> gym_data.amenities]

\* A slip: the comparison of the comprehension turned into an order test.
WithoutIdBelow(list, gym_id) == SelectSeq(list, LAMBDA g : g.id > gym_id)

\* delete_gym: the list comprehension
WithoutId(list, gym_id) == SelectSeq(list, LAMBDA g : g.id # gym_id)

\* get_gym_by_id: the position of the dict returned (the dict itself, no copy); 0 is None
get_gym_by_id(list, gym_id) ==
    IF \E i \in 1..Len(list) : list[i].id = gym_id
    THEN CHOOSE i \in 1..Len(list) :
            /\ list[i].id = gym_id
            /\ \A j \in 1..(i - 1) : list[j].id # gym_id
    ELSE 0

\* A call and how it ended: ret is the value returned, raised says that it ended in
\* an exception, wrote that its write of the CSV file (for replace_all_gyms: its
\* backup rename) took place, which the source reports with a [SAVED] or [BACKUP] line.
Op(name, arg, ret, raised, wrote) ==
    [name |-> name, arg |-> arg, ret |-> ret, raised |-> raised, wrote |-> wrote]

\* What a read hands to its caller.  internal: the list is the store's own list
\* object; refs[k]: the position in self.gyms of the dict that element k is (the
\* same object), or 0 when element k is a fresh dict; copies: the fresh dicts.
Handle(kind, query, internal, refs, copies) ==
    [kind |-> kind, query |-> query, internal |-> internal, refs |-> refs, copies |-> copies]

NoQuery == [lat |-> 0, lon |-> 0, partner |-> [none |-> TRUE, s |-> <<>>], limit |-> 0, id |-> 0]

NoHandle == Handle("none", NoQuery, FALSE, <<>>, <<>>)

\* One more call is made, by a caller that holds no result of an earlier read.
Call == nOps < MaxOps /\ nOps' = nOps + 1 /\ handle = NoHandle

\* GymDatabase.__init__, and a restart of the process: load_gyms over the file
Load ==
    /\ Call
    /\ gyms' = load_gyms(csvFile)
    /\ deleted' = {}
    /\ lastOp' = Op("load", 0, Len(gyms'), FALSE, FALSE)
    /\ UNCHANGED <<csvFile, backupFile, logVars, handle>>

\* A slip: the file is saved on the way out of a failed add_gym as well.
AddRaisesAndSaves(gym_data) ==
    /\ Call
    /\ ~DataCoerces(gym_data)
    /\ lastOp' = Op("add", 0, 0, TRUE, FALSE)
    /\ csvFile' = save_to_csv(gyms, csvFile, TRUE)
    /\ UNCHANGED <<gyms, backupFile, deleted, logVars, handle>>

\* add_gym raising in float()/int(): nothing was appended or saved
AddRaises(gym_data) ==
    /\ Call
    /\ ~DataCoerces(gym_data)
    /\ lastOp' = Op("add", 0, 0, TRUE, FALSE)
    /\ UNCHANGED <<storeVars, logVars, handle>>

AddOk(gym_data, writeOK) ==
    /\ Call
    /\ DataCoerces(gym_data)
    /\ LET new_id == NextId(gyms) IN
        /\ gyms' = Append(gyms, NewGym(new_id, gym_data))
        /\ csvFile' = save_to_csv(gyms', csvFile, writeOK)
        /\ lastOp' = Op("add", 0, new_id, FALSE, writeOK)
    /\ UNCHANGED <<backupFile, deleted, logVars, handle>>

add_gym == \E gym_data \in AddInputs :
    \/ AddRaises(gym_data)
    \/ \E writeOK \in BOOLEAN : AddOk(gym_data, writeOK)

delete_gym == \E gym_id \in 1..NextId(gyms), writeOK \in BOOLEAN :
    LET original_count == Len(gyms)
        remaining == WithoutId(gyms, gym_id)
    IN  /\ Call
        /\ gyms' = remaining
        /\ IF Len(remaining) < original_count
           THEN /\ csvFile' = save_to_csv(remaining, csvFile, writeOK)
                /\ deleted' = deleted \cup {gym_id}
                /\ lastOp' = Op("delete", gym_id, 1, FALSE, writeOK)
           ELSE /\ writeOK
                /\ UNCHANGED <<csvFile, deleted>>
                /\ lastOp' = Op("delete", gym_id, 0, FALSE, FALSE)
        /\ UNCHANGED <<backupFile, logVars, handle>>

\* replace_all_gyms(new_csv_path), src being the file at new_csv_path
replace_all_gyms == \E src \in Sources, backupOK \in BOOLEAN :
    LET backedUp == csvFile.exists /\ backupOK
        afterBackup == IF backedUp THEN NoFile ELSE csvFile
    IN  /\ Call
        /\ backupFile' = IF backedUp THEN csvFile ELSE backupFile
        /\ IF src.exists
           THEN /\ csvFile' = src
                /\ gyms' = load_gyms(src)
                /\ deleted' = {}
                /\ lastOp' = Op("replaceAll", 0, Len(gyms'), FALSE, backedUp)
           ELSE /\ csvFile' = afterBackup
                /\ UNCHANGED <<gyms, deleted>>
                /\ lastOp' = Op("replaceAll", 0, 0, TRUE, backedUp)
        /\ UNCHANGED <<logVars, handle>>

-----------------------------------------------------------------------------
(* SubscriptionManager.                                                    *)

\* _ensure_file_exists: the file json.dump({"requests": []}) leaves
EmptyLog == [exists |-> TRUE, requests |-> <<>>]

\* An optional value of a request: None or a value.
Nothing == [none |-> TRUE, v |-> 0]
Some(v) == [none |-> FALSE, v |-> v]

\* dict.get(key, default) on a request_data dictionary
Get(request_data, key, default) ==
    IF key \in DOMAIN request_data THEN request_data[key] ELSE default

\* The request_data dictionaries save_request is called with: one as
\* SubscriptionRequest.dict() gives it, one without the optional keys.
RequestInputs ==
    { [gym_id |-> 1, gym_name |-> "g1", partner_name |-> "c", full_name |-> "Asha",
       email |-> "a@x.in", phone |-> "9000000001", preferred_plan |-> "1-month",
       billing_address |-> "addr", message |-> "hi",
       user_latitude |-> Some(0), user_longitude |-> Some(1), user_city |-> "Pune"],
      [gym_id |-> 2, gym_name |-> "g2", partner_name |-> "C", full_name |-> "Ravi",
       email |-> "r@x.in", phone |-> "8000000002", preferred_plan |-> "3-month"] }

\* datetime.now().strftime('%Y%m%d'), day 0 being 2026-01-01
DateStr(day) == FormatNat(20260101 + day)

\* f"{n:03d}"
Pad3(n) ==
    LET t == FormatNat(n)
    IN  IF Len(t) >= 3 THEN t ELSE [i \in 1..(3 - Len(t)) |-> "0"] \o t

RequestPrefix(date_str) == <<"R", "E", "Q", "_">> \o date_str

\* get_all_requests: the list read, [] when the read fails
get_all_requests(file, readOK) ==
    IF readOK /\ file.exists THEN file.requests ELSE <<>>

\* save_request: request_count
RequestCount(requests, date_str) ==
    Len(SelectSeq(requests, LAMBDA r : StartsWith(r.request_id, RequestPrefix(date_str)))) + 1

\* save_request: new_request; the timestamp is the day and the number of the call
NewRequest(request_id, day, tick, request_data) ==
    [request_id |-> request_id,
     timestamp |-> [day |-> day, tick |-> tick],
     gym_id |-> request_data.gym_id,
     gym_name |-> request_data.gym_name,
     partner_name |-> request_data.partner_name,
     full_name |-> request_data.full_name,
     email |-> request_data.email,
     phone |-> request_data.phone,
     preferred_plan |-> request_data.preferred_plan,
     billing_address |-> Get(request_data, "billing_address", ""),
     message |-> Get(request_data, "message", ""),
     user_latitude |-> Get(request_data, "user_latitude", Nothing),
     user_longitude |-> Get(request_data, "user_longitude", Nothing),
     user_city |-> Get(request_data, "user_city", "None"),
     status |-> "pending"]

\* A slip: the file is read again when it is written, and the request added to that.
DumpOntoFile(file, requests) ==
    [exists |-> TRUE,
     requests |-> (IF file.exists THEN file.requests ELSE <<>>) \o <<requests[Len(requests)]>>]

\* save_request: json.dump({"requests": requests}) over the file, whatever it held
Dump(file, requests) == [exists |-> TRUE, requests |-> requests]

\* save_request; readOK: the read of get_all_requests succeeds; writeOK: the file
\* opens for writing (when it does not, the exception leaves save_request)
save_request == \E request_data \in RequestInputs, readOK \in BOOLEAN, writeOK \in BOOLEAN :
    LET requests == get_all_requests(reqFile, readOK)
        date_str == DateStr(today)
        request_count == RequestCount(requests, date_str)
        request_id == RequestPrefix(date_str) \o <<"_">> \o Pad3(request_count)
        new_request == NewRequest(request_id, today, nOps, request_data)
    IN  /\ Call
        /\ IF writeOK
           THEN /\ reqFile' = Dump(reqFile, Append(requests, new_request))
                /\ issued' = Append(issued, new_request)
                /\ lastOp' = Op("append", 0, request_count, FALSE, TRUE)
           ELSE /\ UNCHANGED <<reqFile, issued>>
                /\ lastOp' = Op("append", 0, 0, TRUE, FALSE)
        /\ UNCHANGED <<storeVars, handle, today, calls>>

\* The callers of save_request that may run at once (threads or worker processes
\* sharing the file), and a caller that is not inside a call.
Callers == {"a", "b"}
Idle == [pc |-> "idle", requests |-> <<>>]

\* save_request up to requests.append(new_request): the list is read and the request
\* added to the caller's own list; nothing is held while another caller runs
save_request_read(c) == \E request_data \in RequestInputs, readOK \in BOOLEAN :
    LET requests == get_all_requests(reqFile, readOK)
        date_str == DateStr(today)
        request_count == RequestCount(requests, date_str)
        request_id == RequestPrefix(date_str) \o <<"_">> \o Pad3(request_count)
        new_request == NewRequest(request_id, today, nOps, request_data)
    IN  /\ Call
        /\ nOps < MaxRaceCalls
        /\ calls[c].pc # "read"
        /\ calls' = [calls EXCEPT ![c] = [pc |-> "read",
                                          requests |-> Append(requests, new_request)]]
        /\ UNCHANGED <<storeVars, handle, today, reqFile, issued, lastOp>>

\* save_request from open(self.json_path, 'w') to return request_id: the caller's
\* list goes over the file
save_request_write(c) == \E writeOK \in BOOLEAN :
    LET requests == calls[c].requests
        new_request == requests[Len(requests)]
    IN  /\ calls[c].pc = "read"
        /\ IF writeOK
           THEN /\ reqFile' = Dump(reqFile, requests)
                /\ issued' = Append(issued, new_request)
                /\ lastOp' = Op("append", 0, 0, FALSE, TRUE)
                /\ calls' = [calls EXCEPT ![c].pc = "returned"]
           ELSE /\ UNCHANGED <<reqFile, issued>>
                /\ lastOp' = Op("append", 0, 0, TRUE, FALSE)
                /\ calls' = [calls EXCEPT ![c].pc = "raised"]
        /\ UNCHANGED <<storeVars, handle, today, nOps>>

\* Midnight passes.
NextDay ==
    /\ today < MaxDay
    /\ today' = today + 1
    /\ UNCHANGED <<storeVars, handle, lastOp, nOps, reqFile, issued, calls>>

-----------------------------------------------------------------------------

Init ==
    /\ csvFile \in Sources
    /\ gyms = load_gyms(csvFile)
    /\ backupFile = NoFile
    /\ lastOp = Op("init", 0, Len(gyms), FALSE, FALSE)
    /\ deleted = {}
    /\ handle = NoHandle
    /\ reqFile = EmptyLog
    /\ today = 0
    /\ issued = <<>>
    /\ calls = [c \in Callers |-> Idle]
    /\ nOps = 0

Next ==
    \/ Load
    \/ add_gym
    \/ delete_gym
    \/ replace_all_gyms

Spec == Init /\ [][Next]_vars

-----------------------------------------------------------------------------
(* The reads of GymDatabase.                                               *)

\* An Optional[str] argument.
None == [none |-> TRUE, s |-> <<>>]
Str(s) == [none |-> FALSE, s |-> s]

\* The truth value Python gives an Optional[str]: None and "" are false.
Truthy(arg) == ~arg.none /\ arg.s # <<>>

Abs(x) == IF x < 0 THEN 0 - x ELSE x

\* haversine_distance on whole degrees, latitudes 0..1 and longitudes -1..1: the
\* values the source computes (R = 6371.0, rounded to 2 decimals), in hundredths.
haversine_distance(lat1, lon1, lat2, lon2) ==
    LET dlon == Abs(lon2 - lon1) IN
    CASE lat1 = 0 /\ lat2 = 0 -> <<0, 11119, 22239>>[dlon + 1]
      [] lat1 = 1 /\ lat2 = 1 -> <<0, 11118, 22236>>[dlon + 1]
      [] OTHER -> <<11119, 15725, 24863>>[dlon + 1]

\* The positions from `from` on whose partner name is the given one but for case,
\* in list order.
RECURSIVE PositionsOfPartner(_, _, _)
PositionsOfPartner(list, name, from) ==
    IF from > Len(list) THEN <<>>
    ELSE (IF Lower(list[from].partner_name) = Lower(name) THEN <<from>> ELSE <<>>)
            \o PositionsOfPartner(list, name, from + 1)

AllPositions(list) == [i \in 1..Len(list) |-> i]

\* get_gyms_by_partner: self.gyms itself without a filter, else a new list of the
\* dicts of self.gyms that match
get_gyms_by_partner(list, partner) ==
    IF ~Truthy(partner)
    THEN [internal |-> TRUE, refs |-> AllPositions(list)]
    ELSE [internal |-> FALSE,
          refs |-> PositionsOfPartner(list, partner.s, 1)]

\* gym.copy() with the distance set
WithDistance(gym, distance) ==
    [id |-> gym.id, partner_name |-> gym.partner_name, gym_name |-> gym.gym_name,
     address |-> gym.address, pincode |-> gym.pincode, latitude |-> gym.latitude,
     longitude |-> gym.longitude, subscription_amount |-> gym.subscription_amount,
     amenities |-> gym.amenities, distance |-> distance]

\* A slip: an element goes in front of the elements at its own distance.
InsertByDistanceFirst(sorted, x) ==
    LET k == Cardinality({i \in 1..Len(sorted) : sorted[i].distance < x.distance})
    IN  SubSeq(sorted, 1, k) \o <<x>> \o SubSeq(sorted, k + 1, Len(sorted))

\* One element put into a sorted list, behind the elements at its own distance.
InsertByDistance(sorted, x) ==
    LET k == Cardinality({i \in 1..Len(sorted) : sorted[i].distance <= x.distance})
    IN  SubSeq(sorted, 1, k) \o <<x>> \o SubSeq(sorted, k + 1, Len(sorted))

\* list.sort(key=distance): a stable sort
RECURSIVE SortByDistance(_)
SortByDistance(list) ==
    IF list = <<>> THEN <<>>
    ELSE InsertByDistance(SortByDistance(SubSeq(list, 1, Len(list) - 1)), list[Len(list)])

\* list[:limit]
UpTo(list, limit) ==
    IF limit >= 0
    THEN SubSeq(list, 1, IF limit < Len(list) THEN limit ELSE Len(list))
    ELSE SubSeq(list, 1, IF Len(list) + limit > 0 THEN Len(list) + limit ELSE 0)

\* get_nearby_gyms: a new list of fresh dicts
get_nearby_gyms(list, user_lat, user_lon, partner, limit) ==
    LET from == IF Truthy(partner) THEN get_gyms_by_partner(list, partner).refs
                ELSE AllPositions(list)
        gyms_with_distance ==
            [k \in 1..Len(from) |->
                WithDistance(list[from[k]],
                    haversine_distance(user_lat, user_lon,
                                       list[from[k]].latitude, list[from[k]].longitude))]
    IN  UpTo(SortByDistance(gyms_with_distance), limit)

Query(lat, lon, partner, limit, id) ==
    [lat |-> lat, lon |-> lon, partner |-> partner, limit |-> limit, id |-> id]

\* A read is made by a caller that holds no result of an earlier read.
Reads == handle = NoHandle /\ UNCHANGED <<storeVars, logVars, lastOp, nOps>>

QueryPoints == {<<0, 0>>, <<1, 1>>}
Partners == {None, Str(<<>>), Str(<<"c">>), Str(<<"C">>), Str(<<"b">>)}

\* A slip: the distance set on the dict of the store, no copy made.
SameDict(position) == position

\* gym.copy(): the dict handed out is a fresh one, no dict of the store
CopiedDict(position) == 0

\* The dicts get_nearby_gyms hands out, as positions of self.gyms (0: a fresh dict).
NearbyRefs(list, partner, limit) ==
    LET from == IF Truthy(partner) THEN get_gyms_by_partner(list, partner).refs
                ELSE AllPositions(list)
    IN  UpTo([k \in 1..Len(from) |-> CopiedDict(from[k])], limit)

Nearest == \E point \in QueryPoints, partner \in Partners, limit \in 1..MaxLimit :
    /\ Reads
    /\ handle' = Handle("nearest", Query(point[1], point[2], partner, limit, 0), FALSE,
                        NearbyRefs(gyms, partner, limit),
                        get_nearby_gyms(gyms, point[1], point[2], partner, limit))

\* get_gyms_by_partner, and main.get_gyms, which hands db.gyms itself to the HTTP
\* layer when no partner is given
FilterByPartner == \E partner \in Partners :
    /\ Reads
    /\ handle' = Handle("filterByPartner", Query(0, 0, partner, 0, 0),
                        get_gyms_by_partner(gyms, partner).internal,
                        get_gyms_by_partner(gyms, partner).refs, <<>>)

GetById == \E gym_id \in 1..NextId(gyms) :
    /\ Reads
    /\ handle' = Handle("getById", Query(0, 0, None, 0, gym_id), FALSE,
                        IF get_gym_by_id(gyms, gym_id) = 0 THEN <<>>
                        ELSE <<get_gym_by_id(gyms, gym_id)>>, <<>>)

\* The caller drops the result it holds.
Release ==
    /\ handle # NoHandle
    /\ handle' = NoHandle
    /\ UNCHANGED <<storeVars, logVars, lastOp, nOps>>

\* The caller of a read changes what it was handed: it sets a field of element k
\* of the result, which the store sees when that element is a dict of the store.
CallerSetsField == \E k \in 1..Len(handle.refs) :
    /\ handle # NoHandle
    /\ nOps < MaxOps
    /\ nOps' = nOps + 1
    /\ lastOp' = Op("callerSetsField", k, 0, FALSE, FALSE)
    /\ IF handle.refs[k] # 0
       THEN /\ gyms' = [gyms EXCEPT ![handle.refs[k]].partner_name = <<"z">>]
            /\ UNCHANGED handle
       ELSE /\ handle' = [handle EXCEPT !.copies[k].partner_name = <<"z">>]
            /\ UNCHANGED gyms
    /\ UNCHANGED <<csvFile, backupFile, deleted, logVars>>

\* The caller of a read that returned a list removes the last element of that list,
\* which the store sees when the list is the store's own.
CallerPops ==
    /\ handle.kind \in {"filterByPartner", "nearest"}
    /\ handle.refs # <<>>
    /\ nOps < MaxOps
    /\ nOps' = nOps + 1
    /\ lastOp' = Op("callerPops", 0, 0, FALSE, FALSE)
    /\ gyms' = IF handle.internal THEN SubSeq(gyms, 1, Len(gyms) - 1) ELSE gyms
    /\ handle' = [handle EXCEPT !.refs = SubSeq(@, 1, Len(@) - 1),
                                !.copies = SubSeq(@, 1, Len(@) - 1)]
    /\ UNCHANGED <<csvFile, backupFile, deleted, logVars>>

NextQuery ==
    \/ add_gym
    \/ delete_gym
    \/ Nearest
    \/ Release

NextLog ==
    \/ save_request
    \/ NextDay

\* The request log under appends, over the days.
SpecLog == Init /\ [][NextLog]_vars

\* The request log with callers of save_request running at once.
NextRace ==
    \/ \E c \in Callers : save_request_read(c)
    \/ \E c \in Callers : save_request_write(c)
    \/ NextDay

SpecRace == Init /\ [][NextRace]_vars

\* The store under add and delete, queried for the nearest gyms.
SpecQuery == Init /\ [][NextQuery]_vars

NextAlias ==
    \/ add_gym
    \/ GetById
    \/ FilterByPartner
    \/ Nearest
    \/ CallerSetsField
    \/ CallerPops
    \/ Release

\* The store read by callers that go on to change what they were handed.
SpecAlias == Init /\ [][NextAlias]_vars

-----------------------------------------------------------------------------
(* Properties of the gym store.                                            *)

\* The step just taken was a call of the named operation.
Called(name) == nOps' = nOps + 1 /\ lastOp'.name = name

Added == lastOp.name = "add" /\ ~lastOp.raised

IdsDistinctPositive ==
    \A i, j \in 1..Len(gyms) :
        /\ gyms[i].id \in Nat \ {0}
        /\ (i # j => gyms[i].id # gyms[j].id)

AddAssignsMaxPlusOne ==
    (Called("add") /\ ~lastOp'.raised) =>
        /\ \A i \in 1..Len(gyms) : gyms[i].id < lastOp'.ret
        /\ (lastOp'.ret = 1 \/ \E i \in 1..Len(gyms) : gyms[i].id = lastOp'.ret - 1)
        /\ Len(gyms') = Len(gyms) + 1
        /\ gyms'[Len(gyms')].id = lastOp'.ret

\* C1: in every state reached by load, add, delete and replaceAll the ids of the live
\* records are pairwise distinct positive integers, and every add assigns the largest
\* id of the collection plus one (1 on an empty collection).
C1_IdsUniqueMaxPlusOne == [](IdsDistinctPositive) /\ [][AddAssignsMaxPlusOne]_vars

\* An add into a collection with a gap left by a delete.
C1_Witness ==
    /\ Added
    /\ deleted # {}
    /\ Len(gyms) >= 2
    /\ lastOp.ret > Len(gyms)

\* C2 as claimed: with no load or replaceAll in between, an add never returns an id
\* that delete has removed.
C2_NeverReused == Added => lastOp.ret \notin deleted

\* C2 as amended: an add returns an id that delete has removed exactly when every
\* live record has a smaller id than some removed one, that is when the records with
\* the largest ids were removed; an id below a live id is never handed out again.
C2_ReusedOnlyPastTheLargest ==
    [][(Called("add") /\ ~lastOp'.raised) =>
        /\ (lastOp'.ret \in deleted) <=>
              (\E d \in deleted : \A i \in 1..Len(gyms) : gyms[i].id < d)
        /\ \A i \in 1..Len(gyms) : lastOp'.ret > gyms[i].id]_vars

\* An add that hands out the id of a removed record again.
C2_Witness == Added /\ lastOp.ret \in deleted /\ Len(gyms) >= 2

\* C3 as claimed: after an add (its write having taken place), load() over the
\* persisted file gives back the collection held in memory, ids included.
C3_RoundTripSameIds == (Added /\ lastOp.wrote) => load_gyms(csvFile) = gyms

TrimmedAt(gym, idx) ==
    [gym EXCEPT !.id = idx,
                !.partner_name = Strip(@),
                !.gym_name = Strip(@),
                !.address = Strip(@),
                !.pincode = Strip(@),
                !.amenities = Strip(@)]

\* C3 as amended: after an add whose write took place, load() over the persisted file
\* gives the records of the memory in the same order, each with its text fields
\* stripped of surrounding blanks and with its position 1..N as id; it is the
\* collection of the memory itself only when the ids were 1..N and the texts trimmed.
C3_RoundTripRenumbered ==
    (Added /\ lastOp.wrote) =>
        load_gyms(csvFile) = [i \in 1..Len(gyms) |-> TrimmedAt(gyms[i], i)]

\* An add after a delete, written to the file, that load() would renumber.
C3_Witness ==
    /\ Added
    /\ lastOp.wrote
    /\ deleted # {}
    /\ Len(gyms) >= 2
    /\ load_gyms(csvFile) # gyms

\* A row of the file holds the fields of a gym, text for text and number for number.
RowHolds(row, gym) ==
    /\ row.PartnerName = gym.partner_name
    /\ row.GymName = gym.gym_name
    /\ row.Address = gym.address
    /\ row.Pincode = gym.pincode
    /\ ParseFloat(row.Latitude) = Parsed(gym.latitude)
    /\ ParseFloat(row.Longitude) = Parsed(gym.longitude)
    /\ ParseInt(row.SubscriptionAmount) = Parsed(gym.subscription_amount)
    /\ row.Amenities = gym.amenities

\* A gym holds the fields of a row, the texts stripped and the numbers parsed.
RowHoldsStripped(row, gym) ==
    /\ Strip(row.PartnerName) = gym.partner_name
    /\ Strip(row.GymName) = gym.gym_name
    /\ Strip(row.Address) = gym.address
    /\ Strip(row.Pincode) = gym.pincode
    /\ ParseFloat(row.Latitude) = Parsed(gym.latitude)
    /\ ParseFloat(row.Longitude) = Parsed(gym.longitude)
    /\ ParseInt(row.SubscriptionAmount) = Parsed(gym.subscription_amount)
    /\ Strip(row.Amenities) = gym.amenities

Synchronized ==
    /\ csvFile.exists
    /\ Len(csvFile.rows) = Len(gyms)
    /\ \A i \in 1..Len(gyms) : RowHolds(csvFile.rows[i], gyms[i])

Mutated ==
    \/ Added
    \/ lastOp.name = "delete" /\ lastOp.ret = 1
    \/ lastOp.name = "replaceAll" /\ ~lastOp.raised

\* C4 as claimed: when add, delete of an existing id or replaceAll has returned, the
\* rows of the file are the records of the memory, in order and field by field.
C4_AlwaysSynchronized == Mutated => Synchronized

\* C4 as amended: after an add or a delete of an existing id whose write took place
\* the rows of the file are the records of the memory, in order and field by field
\* (a failed write is swallowed and leaves the memory ahead of the file); after a
\* replaceAll that returned, the memory is empty or holds one record per row of the
\* file, each the row with its texts stripped and its numbers parsed.
C4_SynchronizedWhenWritten ==
    /\ ((Added \/ (lastOp.name = "delete" /\ lastOp.ret = 1)) /\ lastOp.wrote)
          => Synchronized
    /\ (lastOp.name = "replaceAll" /\ ~lastOp.raised) =>
          /\ csvFile.exists
          /\ \/ gyms = <<>>
             \/ /\ Len(gyms) = Len(csvFile.rows)
                /\ \A i \in 1..Len(gyms) :
                      /\ gyms[i].id = i
                      /\ RowHoldsStripped(csvFile.rows[i], gyms[i])

\* A delete of an existing id from a collection of several, written to the file.
C4_Witness ==
    /\ lastOp.name = "delete"
    /\ lastOp.ret = 1
    /\ lastOp.wrote
    /\ Len(gyms) >= 2

ReplaceReturned == Called("replaceAll") /\ ~lastOp'.raised

IdsInRowOrder(list) == \A i \in 1..Len(list) : list[i].id = i

\* C9 as claimed: after replaceAll(newSource) the size of the collection is the row
\* count of the new source, the ids are 1..N in row order, and the content of the
\* original source is kept under the .backup name.
C9_ReplaceAllCountsAndBacksUp ==
    [][ReplaceReturned =>
        /\ Len(gyms') = Len(csvFile'.rows)
        /\ IdsInRowOrder(gyms')
        /\ (csvFile.exists => backupFile' = csvFile)]_vars

\* C9 as amended: after a replaceAll(newSource) that returned, the primary path holds
\* the new source; when every row of it parses, the collection has one record per row
\* with ids 1..N in row order, and when some row is malformed the collection is empty;
\* the value returned is the size; no record of the old collection is kept; the
\* original source is under the .backup name when the backup rename took place, and
\* otherwise the .backup file is as it was.
C9_ReplaceAllRegenerates ==
    [][ReplaceReturned =>
        /\ csvFile'.exists
        /\ lastOp'.ret = Len(gyms')
        /\ IF \A i \in 1..Len(csvFile'.rows) : RowParses(csvFile'.rows[i])
           THEN /\ Len(gyms') = Len(csvFile'.rows)
                /\ IdsInRowOrder(gyms')
                /\ \A i \in 1..Len(gyms') :
                      /\ gyms'[i].partner_name = Strip(csvFile'.rows[i].PartnerName)
                      /\ gyms'[i].gym_name = Strip(csvFile'.rows[i].GymName)
           ELSE gyms' = <<>>
        /\ IF lastOp'.wrote
           THEN csvFile.exists /\ backupFile' = csvFile
           ELSE backupFile' = backupFile]_vars

\* A replaceAll over a collection that had an add and more records than the new source.
C9_Witness ==
    /\ lastOp.name = "replaceAll"
    /\ ~lastOp.raised
    /\ lastOp.wrote
    /\ Len(gyms) = 2
    /\ Len(backupFile.rows) = 3

DeleteCalled == Called("delete")

\* The list with the element at position p taken out.
Without(list, p) == [i \in 1..(Len(list) - 1) |-> IF i < p THEN list[i] ELSE list[i + 1]]

\* C10: delete(id) of the id of a record signals the removal, leaves getById(id)
\* not found and the collection one shorter, the other records keeping ids and order;
\* delete(id) of an absent id signals a no-op and leaves memory and file as they were.
C10_DeleteFrame ==
    [][DeleteCalled =>
        IF \E i \in 1..Len(gyms) : gyms[i].id = lastOp'.arg
        THEN /\ lastOp'.ret = 1
             /\ get_gym_by_id(gyms', lastOp'.arg) = 0
             /\ Len(gyms') = Len(gyms) - 1
             /\ \E p \in 1..Len(gyms) :
                   /\ gyms[p].id = lastOp'.arg
                   /\ gyms' = Without(gyms, p)
        ELSE /\ lastOp'.ret = 0
             /\ gyms' = gyms
             /\ csvFile' = csvFile
             /\ backupFile' = backupFile]_vars

\* A delete of an absent id, made after a delete that removed a record.
C10_Witness ==
    /\ lastOp.name = "delete"
    /\ lastOp.ret = 0
    /\ deleted # {}
    /\ gyms # <<>>

-----------------------------------------------------------------------------
(* Properties of the reads.                                                *)

CallerChanges == Called("callerSetsField") \/ Called("callerPops")

\* C5 as claimed: nothing a caller does to a record or a list it got from getById,
\* filterByPartner, nearest or the gym list changes the collection of the store.
C5_ReadsAreCopies == [][CallerChanges => gyms' = gyms]_vars

\* C5 as amended: only nearest hands out copies (fresh records in a fresh list), so
\* nothing done to its result changes the store; getById and filterByPartner hand out
\* the store's own records, so a field set on one of them is set in the store; and
\* filterByPartner without a filter (as the gym list handed to the HTTP layer) is the
\* store's own list, so removing an element from it removes it from the store, while
\* with a filter the list is a new one.
C5_OnlyNearestCopies ==
    [][CallerChanges =>
        /\ handle.kind = "nearest" => gyms' = gyms
        /\ (handle.kind \in {"getById", "filterByPartner"} /\ Called("callerSetsField"))
              => /\ Len(gyms') = Len(gyms)
                 /\ \E i \in 1..Len(gyms) :
                       /\ i = handle.refs[lastOp'.arg]
                       /\ gyms'[i].partner_name = <<"z">>
                       /\ \A j \in (1..Len(gyms)) \ {i} : gyms'[j] = gyms[j]
        /\ (handle.kind = "filterByPartner" /\ Called("callerPops"))
              => IF Truthy(handle.query.partner)
                 THEN gyms' = gyms
                 ELSE gyms' = SubSeq(gyms, 1, Len(gyms) - 1)]_vars

\* A caller has set a field of a record it got from nearest, which the store does
\* not see, after a caller set one through getById or filterByPartner, which it did.
C5_Witness ==
    /\ lastOp.name = "callerSetsField"
    /\ handle.kind = "nearest"
    /\ Len(handle.copies) = 2
    /\ handle.copies[lastOp.arg].partner_name = <<"z">>
    /\ Len(gyms) >= 2
    /\ \E i \in 1..Len(gyms) : gyms[i].partner_name = <<"z">>
    /\ \E i \in 1..Len(gyms) : gyms[i].partner_name # <<"z">>

\* The records a partner filter selects, by the claim's reading of the filter.
Selected(list, partner) ==
    {i \in 1..Len(list) :
        Truthy(partner) => Lower(list[i].partner_name) = Lower(partner.s)}

\* Record i comes before record j by distance from the query point, then by position.
Nearer(list, q, i, j) ==
    LET di == haversine_distance(q.lat, q.lon, list[i].latitude, list[i].longitude)
        dj == haversine_distance(q.lat, q.lon, list[j].latitude, list[j].longitude)
    IN  di < dj \/ (di = dj /\ i < j)

Least(a, b) == IF a < b THEN a ELSE b

\* C6: nearest returns the first min(N, k) of the k records the filter selects
\* (case-insensitively; all records without a filter), in non-decreasing distance,
\* records at equal distance in collection order; filters "c" and "C" select the
\* same records.
C6_NearestIsStablePrefix ==
    /\ get_gyms_by_partner(gyms, Str(<<"c">>)).refs = get_gyms_by_partner(gyms, Str(<<"C">>)).refs
    /\ handle.kind = "nearest" =>
          LET q == handle.query
              result == handle.copies
              sel == Selected(gyms, q.partner)
          IN  /\ Len(result) = Least(q.limit, Cardinality(sel))
              /\ \A k \in 1..Len(result) :
                    \E i \in sel :
                        /\ Cardinality({j \in sel : Nearer(gyms, q, j, i)}) = k - 1
                        /\ result[k] = WithDistance(gyms[i],
                              haversine_distance(q.lat, q.lon,
                                                 gyms[i].latitude, gyms[i].longitude))
              /\ \A k \in 1..(Len(result) - 1) : result[k].distance <= result[k + 1].distance

\* A filtered query cut to 2 of 3 matches that are all at one distance and whose
\* partner names differ in case.
C6_Witness ==
    /\ handle.kind = "nearest"
    /\ Truthy(handle.query.partner)
    /\ Cardinality(Selected(gyms, handle.query.partner)) = 3
    /\ Len(handle.copies) = 2
    /\ handle.copies[1].distance = handle.copies[2].distance
    /\ handle.copies[1].partner_name # handle.copies[2].partner_name

-----------------------------------------------------------------------------
(* Properties of the request log.                                          *)

\* The appends of the day of the i-th returned request, up to that request.
RankOfDay(i) ==
    Cardinality({j \in 1..i : issued[j].timestamp.day = issued[i].timestamp.day})

\* C7: the ids returned by the appends of one day are REQ_<YYYYMMDD>_<seq3> with the
\* date of the day, pairwise distinct, and the k-th append of the day gets sequence k
\* in three zero-padded digits.
C7_DailySequence ==
    /\ \A i \in 1..Len(issued) :
          LET id == issued[i].request_id
          IN  /\ Len(id) = 16
              /\ SubSeq(id, 1, 4) = <<"R", "E", "Q", "_">>
              /\ SubSeq(id, 5, 12) = DateStr(issued[i].timestamp.day)
              /\ id[13] = "_"
              /\ IsNatText(SubSeq(id, 14, 16))
              /\ NatOf(SubSeq(id, 14, 16)) = RankOfDay(i)
    /\ \A i, j \in 1..Len(issued) :
          i # j => issued[i].request_id # issued[j].request_id

\* list is a subsequence of within: its elements occur in within, in the same order.
RECURSIVE IsSubsequence(_, _)
IsSubsequence(list, within) ==
    IF list = <<>> THEN TRUE
    ELSE IF within = <<>> THEN FALSE
    ELSE IF Head(list) = Head(within) THEN IsSubsequence(Tail(list), Tail(within))
    ELSE IsSubsequence(list, Tail(within))

\* C8: every request an append has returned an id for is in the persisted list,
\* unchanged and in the order of the appends, also after an append whose read of the
\* file failed.
C8_AppendOnly == reqFile.exists /\ IsSubsequence(issued, reqFile.requests)

-----------------------------------------------------------------------------
(* Properties of the failures of the gym store.                            *)

AddFailed == Called("add") /\ lastOp'.raised

\* C11: an add that fails on a numeric field that cannot be coerced signals the
\* failure and leaves the store as it was: no record appended, the source not
\* rewritten, no id consumed (a successful add right after it gets the id the failed
\* one would have got, the largest id of the unchanged collection plus one).
C11_FailedAddChangesNothing ==
    [][/\ AddFailed =>
            /\ gyms' = gyms
            /\ csvFile' = csvFile
            /\ backupFile' = backupFile
            /\ lastOp'.ret = 0
            /\ ~lastOp'.wrote
       /\ (Called("add") /\ ~lastOp'.raised /\ lastOp.name = "add" /\ lastOp.raised) =>
            /\ \A i \in 1..Len(gyms) : gyms[i].id < lastOp'.ret
            /\ (lastOp'.ret = 1 \/ \E i \in 1..Len(gyms) : gyms[i].id = lastOp'.ret - 1)]_vars

\* A failed add on a store that holds records the file does not (an earlier write
\* failed), so that a rewrite of the file would show.
C11_Witness ==
    /\ lastOp.name = "add"
    /\ lastOp.raised
    /\ Len(gyms) >= 2
    /\ ~Synchronized

\* C12: replaceAll swaps the source atomically: however it ends, the primary path
\* holds the complete old source or a complete new one, the collection in memory is
\* what load() of the primary path yields, and a failed backup alone does not abort
\* the replace (with the new source present, the call returns normally).
C12_ReplaceAllAtomic ==
    [][Called("replaceAll") =>
          /\ \/ csvFile' = csvFile
             \/ csvFile'.exists /\ csvFile' \in Sources /\ ~lastOp'.raised
          /\ gyms' = load_gyms(csvFile')
          /\ (lastOp'.raised /\ ~lastOp'.wrote) => csvFile' = csvFile]_vars

-----------------------------------------------------------------------------
(* Properties of callers of the request log running at once.               *)

RequestOf(c) == calls[c].requests[Len(calls[c].requests)]
ListReadBy(c) == SubSeq(calls[c].requests, 1, Len(calls[c].requests) - 1)
Logged(r) == reqFile.exists /\ \E i \in 1..Len(reqFile.requests) : reqFile.requests[i] = r
BothReturned == \A c \in Callers : calls[c].pc = "returned"

\* C13: with nothing held over read -> mutate -> persist, two append() calls that
\* both returned having worked from the same list (both read before either wrote)
\* were given the same request identifier when on the same day, and the log holds
\* the one list or the other: only one of the two requests.
C13_RaceLosesARequest ==
    (BothReturned /\ ListReadBy("a") = ListReadBy("b")) =>
        /\ RequestOf("a") # RequestOf("b")
        /\ reqFile.requests \in {calls["a"].requests, calls["b"].requests}
        /\ ~(Logged(RequestOf("a")) /\ Logged(RequestOf("b")))
        /\ (RequestOf("a").timestamp.day = RequestOf("b").timestamp.day) =>
               RequestOf("a").request_id = RequestOf("b").request_id

\* Two calls that both read a log of one request before either wrote, returned
\* the same id, and left a log with one of their two requests.
C13_Witness ==
    /\ BothReturned
    /\ ListReadBy("a") = ListReadBy("b")
    /\ Len(ListReadBy("a")) = 1
    /\ ListReadBy("a")[1].request_id # RequestOf("a").request_id
    /\ RequestOf("a").request_id = RequestOf("b").request_id
    /\ Len(issued) = 3
    /\ Len(reqFile.requests) = 2
    /\ Logged(RequestOf("a")) # Logged(RequestOf("b"))

====
